---- MODULE Spec2Model ----
(***************************************************************************)
(* splasher: bit-banged SPI flash programmer.                              *)
(*                                                                         *)
(* The model follows src/src/hardware.cpp (hwSPI transport and the         *)
(* splasher:: operations), src/include/hardware.hpp (limits, opcodes,      *)
(* pinout, Device) and the BinFile code at the end of src/src/main.cpp.    *)
(*                                                                         *)
(* The pin facility (pigpio) is modelled by what the code asks of it:      *)
(* gpioSetMode, gpioWrite, gpioRead and gpioDelay, each one counted and    *)
(* recorded.  The flash chip is the environment: it answers on the MISO    *)
(* line, most significant bit first.                                       *)
(***************************************************************************)
EXTENDS Integers, Sequences, FiniteSets, TLC

VARIABLES
    pc,      \* position of the running operation
    call,    \* the operation called and its arguments
    dev,     \* the Device handed to the operation
    file,    \* the BinFile handed to the operation
    dut,     \* the hwSPI object (timing quanta), once constructed
    hw,      \* the pin facility: levels, modes, access counters, last pin events
    bus,     \* the transport calls made so far (start, stop, tx, rx)
    chip,    \* the environment on the other side of the pins
    loc,     \* the operation's local variables
    report   \* the diagnostics written to std::cerr

vars == <<pc, call, dev, file, dut, hw, bus, chip, loc, report>>

(***************************************************************************)
(* Program constants                                                       *)
(***************************************************************************)
MAX_BYTES == 268435456
MAX_KHZ == 1000
S25_PAGE_SIZE == 256
SECTOR_SIZE == 4096

SPI_SCLK == 2
SPI_MISO == 3
SPI_MOSI == 4
SPI_CS == 27
SPI_WP == 22

READ == 3
WRITE_ENABLE == 6
PAGE_PROGRAM == 2
SECTOR_ERASE_4K == 32
CHIP_ERASE == 199
READ_JEDEC_ID == 159
READ_STATUS == 5

Pins == {SPI_SCLK, SPI_MISO, SPI_MOSI, SPI_CS, SPI_WP}
Byte == 0..255

(***************************************************************************)
(* Bounds of the model                                                     *)
(***************************************************************************)
\* Largest byte count of a dump.
MaxDumpBytes == 3
\* Largest number of whole pages in the byte count of a write.
MaxPages == 1
\* Largest number of whole sectors in the byte count of a range erase.
MaxSectors == 2
\* Largest number of status reads a chip answers "busy" after a command.
MaxBusy == 1
\* The status reads followed beyond those a chip that finishes needs.
MaxStuckPolls == 2
\* Stands for MAX_RAM_BYTES (10485760), the capacity of BinFile's byte
\* array, scaled down so that refills and flushes happen within a run.
MaxRamBytes == 100

(***************************************************************************)
(* Bit helpers                                                             *)
(***************************************************************************)
Pow2(n) == 2 ^ n

\* (byte >> k) & 0x01
BitOf(byte, k) == (byte \div Pow2(k)) % 2

\* (x >> s) & 0xFF
ByteOf(x, s) == (x \div Pow2(s)) % 256

(***************************************************************************)
(* The pin facility: every call is counted and recorded in hw.trace.       *)
(***************************************************************************)
HwReset ==
    [level  |-> [p \in Pins |-> -1],
     mode   |-> [p \in Pins |-> "none"],
     nmode  |-> 0, nwrite |-> 0, nread |-> 0, ndelay |-> 0,
     trace  |-> <<>>]

GpioSetMode(h, pin, m) ==
    [h EXCEPT !.mode[pin] = m,
              !.nmode = @ + 1,
              !.trace = Append(@, <<"mode", pin, m>>)]

GpioWrite(h, pin, lv) ==
    [h EXCEPT !.level[pin] = lv,
              !.nwrite = @ + 1,
              !.trace = Append(@, <<"write", pin, lv>>)]

GpioDelay(h, us) ==
    [h EXCEPT !.ndelay = @ + 1,
              !.trace = Append(@, <<"delay", us>>)]

\* The level gpioRead(io_MISO) returns for the k-th sample of a byte.  With
\* data-in wired to data-out it is the level of the data-out line; with an
\* echoing loop-back it is the k-th level the loop-back captured; otherwise
\* it is the chip's answer, most significant bit first.
MisoLevel(h, line, k) ==
    IF line.loop = "wire" THEN h.level[SPI_MOSI]
    ELSE IF line.loop = "echo" THEN line.fifo[k + 1]
    ELSE BitOf(line.byte, 7 - k)

\* What an echoing loop-back captures during a call: the level of the
\* data-out line at each rising edge of the clock, in order.
MosiAt(h, tr, k) ==
    LET w == {j \in 1..(k - 1) : tr[j][1] = "write" /\ tr[j][2] = SPI_MOSI}
    IN  IF w = {} THEN h.level[SPI_MOSI]
        ELSE tr[CHOOSE j \in w : \A i \in w : i <= j][3]

Captured(h, tr) ==
    LET rising == SelectSeq([k \in 1..Len(tr) |-> k],
                            LAMBDA k : tr[k] = <<"write", SPI_SCLK, 1>>)
    IN  [n \in 1..Len(rising) |-> MosiAt(h, tr, rising[n])]

GpioRead(h, pin, lv) ==
    [h EXCEPT !.nread = @ + 1,
              !.trace = Append(@, <<"read", pin, lv>>)]

DelayAlways(h, wait) == GpioDelay(h, wait)

\* if(wait != 0) gpioDelay(wait);
DelayIf(h, wait) == IF wait # 0 THEN GpioDelay(h, wait) ELSE h

\* No pin event yet in the call that starts.
Fresh(h) == [h EXCEPT !.trace = <<>>]

(***************************************************************************)
(* hwSPI                                                                   *)
(***************************************************************************)
\* The timing quanta of a freshly constructed object.
DutNew == [wait_clk |-> 0, wait_byte |-> 0, wait_bit |-> 0]

HalfUsFloorless(KHz) == 500 \div KHz

HalfUs(KHz) == IF 500 \div KHz < 1 THEN 1 ELSE 500 \div KHz

setTiming(d, KHz) ==
    IF KHz = 0
    THEN [wait_clk |-> 0, wait_bit |-> 0, wait_byte |-> 0]
    ELSE [wait_clk |-> HalfUs(KHz), wait_bit |-> HalfUs(KHz),
          wait_byte |-> HalfUs(KHz)]

startDeselected(h, d) == DelayIf(GpioWrite(h, SPI_CS, 1), d.wait_byte)

start(h, d) == DelayIf(GpioWrite(h, SPI_CS, 0), d.wait_byte)

stop(h, d) == DelayIf(GpioWrite(h, SPI_CS, 1), d.wait_byte)

setWriteProtectInverted(h, enable) ==
    GpioWrite(h, SPI_WP, IF enable THEN 0 ELSE 1)

\* gpioWrite(io_WP, enable ? 1 : 0)
setWriteProtect(h, enable) == GpioWrite(h, SPI_WP, IF enable THEN 1 ELSE 0)

init(h, d) ==
    LET h1 == GpioSetMode(h, SPI_SCLK, "out")
        h2 == GpioSetMode(h1, SPI_MOSI, "out")
        h3 == GpioSetMode(h2, SPI_CS, "out")
        h4 == GpioSetMode(h3, SPI_WP, "out")
        h5 == GpioSetMode(h4, SPI_MISO, "in")
        h6 == GpioWrite(h5, SPI_SCLK, 0)
        h7 == GpioWrite(h6, SPI_MOSI, 0)
        h8 == GpioWrite(h7, SPI_MISO, 0)
        h9 == stop(h8, d)
    IN  setWriteProtect(h9, TRUE)

ConstructUnprotected(h) == setWriteProtect(init(h, DutNew), FALSE)

\* hwSPI::hwSPI: the timing quanta are still 0 when init() runs.
Construct(h) == init(h, DutNew)

ClockPulseLowFirst(h, d) ==
    LET h1 == GpioWrite(h, SPI_SCLK, 0)
        h2 == DelayIf(h1, d.wait_clk)
        h3 == GpioWrite(h2, SPI_SCLK, 1)
    IN  DelayIf(h3, d.wait_clk)

\* One clock pulse: SCLK high, wait, SCLK low, wait.
ClockPulse(h, d) ==
    LET h1 == GpioWrite(h, SPI_SCLK, 1)
        h2 == DelayIf(h1, d.wait_clk)
        h3 == GpioWrite(h2, SPI_SCLK, 0)
    IN  DelayIf(h3, d.wait_clk)

\* The bit tx_byte sends in the iteration with index bitIndex.
TxBitLsbFirst(byte, bitIndex) == BitOf(byte, 7 - bitIndex)

TxBit(byte, bitIndex) == BitOf(byte, bitIndex)

RECURSIVE TxBits(_, _, _, _)
TxBits(h, d, byte, bitIndex) ==
    IF bitIndex < 0 THEN h
    ELSE LET h1 == GpioWrite(h, SPI_MOSI, TxBit(byte, bitIndex))
             h2 == DelayIf(h1, d.wait_bit)
         IN  TxBits(ClockPulse(h2, d), d, byte, bitIndex - 1)

tx_byte(h, d, byte) == DelayIf(TxBits(h, d, byte, 7), d.wait_byte)

RxShiftLsbFirst(data, cBit) == (data \div 2) + (IF cBit # 0 THEN 128 ELSE 0)

\* data = data << 1; if(cBit != 0) data = data | 0x01;   (data is a char)
RxShift(data, cBit) == ((2 * data) % 256) + (IF cBit # 0 THEN 1 ELSE 0)

\* rx_byte: the pin facility after the call and the byte returned.
RECURSIVE RxBits(_, _, _, _, _)
RxBits(h, d, data, bitIndex, line) ==
    IF bitIndex >= 8 THEN [h |-> h, data |-> data]
    ELSE LET cBit == MisoLevel(h, line, bitIndex)
             h1 == GpioRead(h, SPI_MISO, cBit)
             h2 == DelayIf(h1, d.wait_bit)
         IN  RxBits(ClockPulse(h2, d), d, RxShift(data, cBit), bitIndex + 1, line)

\* The line is what it is when the call starts: ln is its value.
rx_byte(h, d, line) ==
    CHOOSE x \in {[h |-> DelayIf(r.h, d.wait_byte), data |-> r.data] :
                      r \in {RxBits(h, d, 0, 0, ln) : ln \in {line}}} : TRUE

(***************************************************************************)
(* Values of the variables an operation does not use                       *)
(***************************************************************************)
\* Device::Device(); jedecId is not initialised by the constructor.
DeviceNew ==
    [interface |-> "SPI", protocol |-> "S25", KHz |-> 100, bytes |-> 0,
     offset |-> 0, jedecId |-> <<-1, -1, -1>>, jedecValid |-> FALSE]

NoFile == [readMode |-> FALSE, disk |-> <<>>, rdpos |-> 0, arr |-> <<>>,
           byteArrayPos |-> 0, byteArrayLen |-> 0]

\* stuck: the chip never finishes a program or erase; reads: the status
\* reads since the last program or erase command.
NoChip ==
    [loop |-> "none", fifo |-> <<>>, id |-> <<0, 0, 0>>, hi |-> 0, wip |-> 0,
     stuck |-> FALSE, reads |-> 0]

NoLoc == [addr |-> 0, remaining |-> 0, chunk |-> 0, i |-> 0, cByte |-> 0,
          end |-> 0, st |-> 0, ret |-> "none"]

(***************************************************************************)
(* BinFile                                                                 *)
(***************************************************************************)
Min(a, b) == IF a < b THEN a ELSE b

flushArrayDropsLast(f) ==
    IF f.byteArrayPos = 0 THEN f
    ELSE [f EXCEPT !.disk = @ \o SubSeq(f.arr, 1, f.byteArrayPos - 1),
                   !.byteArrayPos = 0]

\* BinFile::flushArrayToFile
flushArrayToFile(f) ==
    IF f.byteArrayPos = 0 THEN f
    ELSE [f EXCEPT !.disk = @ \o SubSeq(f.arr, 1, f.byteArrayPos),
                   !.byteArrayPos = 0]

\* byteArrayPtr[byteArrayPos] = byte
ArrPut(arr, pos, byte) ==
    IF pos < Len(arr) THEN [arr EXCEPT ![pos + 1] = byte] ELSE Append(arr, byte)

\* BinFile::~BinFile: if (!readMode && byteArrayPos != 0) flushArrayToFile();
BinFileDestroy(f) ==
    IF ~f.readMode /\ f.byteArrayPos # 0 THEN flushArrayToFile(f) ELSE f

\* BinFile::pushByteToArray
pushByteToArray(f, byte) ==
    LET f1 == IF f.byteArrayPos = MaxRamBytes THEN flushArrayToFile(f) ELSE f
    IN  [f1 EXCEPT !.arr = ArrPut(@, f1.byteArrayPos, byte),
                   !.byteArrayPos = @ + 1]

\* file.read(byteArrayPtr, MAX_RAM_BYTES); byteArrayLen = file.gcount();
Refill(f) ==
    LET n == Min(MaxRamBytes, Len(f.disk) - f.rdpos)
    IN  [f EXCEPT !.arr = IF n = 0 THEN @ ELSE SubSeq(f.disk, f.rdpos + 1, f.rdpos + n),
                  !.rdpos = @ + n,
                  !.byteArrayLen = n,
                  !.byteArrayPos = 0]

\* BinFile::pullByteFromFile: the file after the call, whether a byte was
\* read, and the byte.
pullByteFromFile(f) ==
    IF ~f.readMode THEN [f |-> f, ok |-> FALSE, byte |-> 0]
    ELSE LET f1 == IF f.byteArrayPos >= f.byteArrayLen THEN Refill(f) ELSE f
         IN  IF f1.byteArrayLen = 0
             THEN [f |-> f1, ok |-> FALSE, byte |-> 0]
             ELSE [f |-> [f1 EXCEPT !.byteArrayPos = @ + 1], ok |-> TRUE,
                   byte |-> f1.arr[f1.byteArrayPos + 1]]

\* A file opened with mode 'w' (truncated) or 'r' (holding content).
OpenWrite == [NoFile EXCEPT !.readMode = FALSE]

OpenRead(content) == [NoFile EXCEPT !.readMode = TRUE, !.disk = content]

\* The content of a source file of n bytes.
SourceBytes(n) == [k \in 1..n |-> (7 * k + 10) % 256]

(***************************************************************************)
(* The chip on the other side of the pins                                  *)
(***************************************************************************)
\* The calls at which chip-select goes from high to low, and back.
Opens(b) == {k \in 1..Len(b) : b[k][1] = "start" /\ b[k][2] # 0}

Closes(b) == {k \in 1..Len(b) : b[k][1] = "stop" /\ b[k][2] = 0}

MaxOf(S) == CHOOSE k \in S : \A j \in S : j <= k

IsByte(e) == e[1] \in {"tx", "rx"}

\* The bytes clocked since chip-select last went from high to low.
CurFrame(b) ==
    IF Opens(b) = {} THEN <<>>
    ELSE SelectSeq(SubSeq(b, MaxOf(Opens(b)) + 1, Len(b)), IsByte)

\* The byte the chip shifts out next: the identity after 0x9F, the status
\* after 0x05, and (address + index) mod 256 after 0x03 and its address.
ChipAnswer(c, b) ==
    LET fr == CurFrame(b)
        op == IF Len(fr) > 0 THEN fr[1][2] ELSE -1
    IN  IF op = READ_JEDEC_ID /\ Len(fr) <= 3 THEN c.id[Len(fr)]
        ELSE IF op = READ_STATUS THEN c.hi + (IF c.wip > 0 THEN 1 ELSE 0)
        ELSE IF op = READ /\ Len(fr) >= 4 THEN (fr[4][2] + (Len(fr) - 4)) % 256
        ELSE 255

StatusHi == {0, 254}

\* The chip after chip-select rises: a program or erase command makes it
\* busy for some status reads; a status read uses one of them up.
ChipAfterStop(c, b) ==
    LET fr == CurFrame(b)
        op == IF Len(fr) > 0 THEN fr[1][2] ELSE -1
    IN  IF hw.level[SPI_CS] # 0 THEN {c}
        ELSE IF op \in {PAGE_PROGRAM, SECTOR_ERASE_4K, CHIP_ERASE}
        THEN {[c EXCEPT !.wip = w, !.hi = h, !.reads = 0] :
                 w \in IF c.stuck THEN {1} ELSE 0..MaxBusy, h \in StatusHi}
        ELSE IF op = READ_STATUS
        THEN {[c EXCEPT !.wip = IF c.wip > 0 /\ ~c.stuck THEN @ - 1 ELSE @,
                        !.reads = @ + 1]}
        ELSE {c}

(***************************************************************************)
(* Transport calls as steps of an operation                                *)
(***************************************************************************)
Line == [loop |-> chip.loop, fifo |-> chip.fifo, byte |-> ChipAnswer(chip, bus)]

DoStart(next) ==
    /\ hw' = start(Fresh(hw), dut)
    /\ bus' = Append(bus, <<"start", hw.level[SPI_CS]>>)
    /\ pc' = next
    /\ UNCHANGED <<call, dut, chip, report>>

DoStop(next) ==
    /\ hw' = stop(Fresh(hw), dut)
    /\ bus' = Append(bus, <<"stop", hw.level[SPI_CS]>>)
    /\ chip' \in ChipAfterStop(chip, bus)
    /\ pc' = next
    /\ UNCHANGED <<call, dut, report>>

DoTx(byte, next) ==
    /\ hw' = tx_byte(Fresh(hw), dut, byte)
    /\ bus' = Append(bus, <<"tx", byte>>)
    /\ pc' = next
    /\ UNCHANGED <<call, dut, chip, report>>

\* The byte rx_byte returns in the current state.
RxData == rx_byte(Fresh(hw), dut, Line).data

DoRx(next) ==
    /\ hw' = rx_byte(Fresh(hw), dut, Line).h
    /\ bus' = Append(bus, <<"rx", RxData>>)
    /\ pc' = next
    /\ UNCHANGED <<call, dut, chip, report>>

\* The address byte sent in iteration i: (addr >> 16), (addr >> 8), addr.
AddrByte(addr, i) == ByteOf(addr, 16 - 8 * i)

\* hwSPI dut(...); dut.setTiming(dev.KHz == 0 ? 0 : dev.KHz);
NewDut(d) ==
    /\ hw' = Construct(Fresh(hw))
    /\ bus' = Append(bus, <<"stop", hw.level[SPI_CS]>>)
    /\ dut' = setTiming(DutNew, d.KHz)

\* splasher::initRead, its first statement: spi->setTiming(dev.KHz); the
\* identification it then runs is the steps IdStart .. IdStop.
initReadTiming(dt, d) == setTiming(dt, d.KHz)

initWriteNone(h) == h

\* splasher::initWrite on the pins: spi->setWriteProtect(false)
initWrite(h) == setWriteProtect(h, FALSE)

\* hwSPI dut(...); dut.setTiming(...); initWrite(dev, dut);
NewDutForWrite(d) ==
    /\ hw' = initWrite(Construct(Fresh(hw)))
    /\ bus' = Append(bus, <<"stop", hw.level[SPI_CS]>>)
    /\ dut' = setTiming(DutNew, d.KHz)

\* dev.interface != IFACE::SPI || dev.protocol != PROT::S25
UnsupportedIfaceOnly(d) == d.interface # "SPI"

Unsupported(d) == d.interface # "SPI" \/ d.protocol # "S25"

Reject(msg) ==
    /\ report' = Append(report, msg)
    /\ pc' = "done"
    /\ UNCHANGED <<call, dev, file, dut, hw, bus, chip, loc>>

(***************************************************************************)
(* hwSPI::readJedecId, reached from initRead (dump) and from               *)
(* splasher::readJedecId                                                   *)
(***************************************************************************)
IdStart ==
    /\ pc = "id_start"
    /\ DoStart("id_cmd")
    /\ UNCHANGED <<dev, file, loc>>

IdCmd ==
    /\ pc = "id_cmd"
    /\ DoTx(READ_JEDEC_ID, "id_rx")
    /\ loc' = [loc EXCEPT !.i = 0]
    /\ UNCHANGED <<dev, file>>

\* The field of ChipId the i-th byte read goes to: manufacturer (1),
\* memoryType (2), capacity (3).
IdFieldReversed(i) == 3 - i

IdField(i) == i + 1

IdRead ==
    /\ pc = "id_rx"
    /\ DoRx(IF loc.i = 2 THEN "id_stop" ELSE "id_rx")
    /\ dev' = [dev EXCEPT !.jedecId[IdField(loc.i)] = RxData]
    /\ loc' = [loc EXCEPT !.i = @ + 1]
    /\ UNCHANGED file

\* stop(); return true;  then dev.jedecValid = <the value returned>
IdStop ==
    /\ pc = "id_stop"
    /\ DoStop(IF call.op = "dump" THEN "rd_start" ELSE "done")
    /\ dev' = [dev EXCEPT !.jedecValid = TRUE]
    /\ loc' = IF call.op = "jedec" THEN [loc EXCEPT !.ret = "true"] ELSE loc
    /\ UNCHANGED file

(***************************************************************************)
(* splasher::initRead, called on any FlashInterface                        *)
(***************************************************************************)
Transports == {"hwSPI", "hwDSPI", "hwQSPI", "hwI2C"}

\* What readId returns: hwSPI::readId returns readJedecId's true; the stubs
\* are { (void)id; return false; }.
readId(t) == t = "hwSPI"

\* hwSPI *spi = dynamic_cast<hwSPI*>(&hw); if (spi) { setTiming; readId }
\* Nothing is executed when the cast yields null.
InitReadEntry ==
    /\ pc = "entry"
    /\ call.op = "initRead"
    /\ IF call.hw = "hwSPI"
       THEN /\ dut' = initReadTiming(dut, dev)
            /\ pc' = "id_start"
            /\ UNCHANGED <<call, dev, file, hw, bus, chip, loc, report>>
       ELSE /\ pc' = "done"
            /\ UNCHANGED <<call, dev, file, dut, hw, bus, chip, loc, report>>

\* splasher::initWrite: (void)dev; if (spi) spi->setWriteProtect(false);
InitWriteEntry ==
    /\ pc = "entry"
    /\ call.op = "initWrite"
    /\ hw' = IF call.hw = "hwSPI" THEN initWrite(Fresh(hw)) ELSE hw
    /\ pc' = "done"
    /\ UNCHANGED <<call, dev, file, dut, bus, chip, loc, report>>

(***************************************************************************)
(* splasher::readJedecId                                                   *)
(***************************************************************************)
JedecEntry ==
    /\ pc = "entry"
    /\ call.op = "jedec"
    /\ IF dev.interface # "SPI"
       THEN /\ pc' = "done"
            /\ loc' = [loc EXCEPT !.ret = "false"]
            /\ UNCHANGED <<call, dev, file, dut, hw, bus, chip, report>>
       ELSE /\ NewDut(dev)
            /\ pc' = "id_start"
            /\ UNCHANGED <<call, dev, file, chip, loc, report>>

(***************************************************************************)
(* splasher::dumpFlashToFile                                               *)
(***************************************************************************)
DumpEntry ==
    /\ pc = "entry"
    /\ call.op = "dump"
    /\ IF Unsupported(dev)
       THEN Reject("Dump only supported for SPI/25-series")
       ELSE /\ hw' = Construct(Fresh(hw))
            /\ bus' = Append(bus, <<"stop", hw.level[SPI_CS]>>)
            /\ dut' = initReadTiming(setTiming(DutNew, dev.KHz), dev)
            /\ pc' = "id_start"
            /\ UNCHANGED <<call, dev, file, chip, loc, report>>

RdStart ==
    /\ pc = "rd_start"
    /\ DoStart("rd_cmd")
    /\ UNCHANGED <<dev, file, loc>>

RdCmd ==
    /\ pc = "rd_cmd"
    /\ DoTx(READ, "rd_addr")
    /\ loc' = [loc EXCEPT !.i = 0]
    /\ UNCHANGED <<dev, file>>

\* The loop test of the read loop: cByte < maxByte, maxByte = dev.bytes + 1
DumpMoreOffByOne(cByte, bytes) == cByte <= bytes + 1

DumpMore(cByte, bytes) == cByte < bytes + 1

RdAddr ==
    /\ pc = "rd_addr"
    /\ DoTx(AddrByte(dev.offset, loc.i),
            IF loc.i < 2 THEN "rd_addr"
            ELSE IF DumpMore(1, dev.bytes) THEN "rd_byte" ELSE "rd_stop")
    /\ loc' = [loc EXCEPT !.i = @ + 1, !.cByte = 1]
    /\ UNCHANGED <<dev, file>>

\* file.pushByteToArray(dut.readByte());
RdByte ==
    /\ pc = "rd_byte"
    /\ DoRx(IF DumpMore(loc.cByte + 1, dev.bytes) THEN "rd_byte" ELSE "rd_stop")
    /\ file' = pushByteToArray(file, RxData)
    /\ loc' = [loc EXCEPT !.cByte = @ + 1]
    /\ UNCHANGED dev

RdStop ==
    /\ pc = "rd_stop"
    /\ DoStop("done")
    /\ UNCHANGED <<dev, file, loc>>

(***************************************************************************)
(* s25_waitBusy, and what follows it in the loop that called it            *)
(***************************************************************************)
WbStart ==
    /\ pc = "wb_start"
    /\ chip.reads < MaxBusy + 1 + MaxStuckPolls
    /\ DoStart("wb_cmd")
    /\ UNCHANGED <<dev, file, loc>>

WbCmd ==
    /\ pc = "wb_cmd"
    /\ DoTx(READ_STATUS, "wb_rx")
    /\ UNCHANGED <<dev, file, loc>>

WbRead ==
    /\ pc = "wb_rx"
    /\ DoRx("wb_stop")
    /\ loc' = [loc EXCEPT !.st = RxData]
    /\ UNCHANGED <<dev, file>>

\* (st & 1) == 0: the write-in-progress bit is clear
WipClearWholeByte(st) == st = 0

WipClearNever(st) == FALSE

WipClear(st) == st % 2 = 0

\* The chunk of the next page: remaining > S25_PAGE_SIZE ? S25_PAGE_SIZE : remaining
ChunkWholePage(remaining) == S25_PAGE_SIZE

Chunk(remaining) ==
    IF remaining > S25_PAGE_SIZE THEN S25_PAGE_SIZE ELSE remaining

\* while (remaining > 0)
WriteLoop(remaining) == IF remaining > 0 THEN "wr_we_start" ELSE "done"

\* while (addr < end)
EraseLoop(addr, end) == IF addr < end THEN "es_we_start" ELSE "er_stop"

\* addr += 4096
EraseStep(addr) == addr + SECTOR_SIZE

WbStop ==
    /\ pc = "wb_stop"
    /\ IF ~WipClear(loc.st)
       THEN /\ DoStop("wb_start")
            /\ UNCHANGED loc
       ELSE IF call.op = "write"
       THEN \* addr += chunk; remaining -= chunk;
            /\ DoStop(WriteLoop(loc.remaining - loc.chunk))
            /\ loc' = [loc EXCEPT !.addr = @ + loc.chunk,
                                  !.remaining = @ - loc.chunk,
                                  !.chunk = Chunk(loc.remaining - loc.chunk)]
       ELSE /\ DoStop(EraseLoop(EraseStep(loc.addr), loc.end))
            /\ loc' = [loc EXCEPT !.addr = EraseStep(@)]
    /\ UNCHANGED <<dev, file>>

(***************************************************************************)
(* splasher::writeFileToFlash                                              *)
(***************************************************************************)
WriteEntry ==
    /\ pc = "entry"
    /\ call.op = "write"
    /\ IF Unsupported(dev)
       THEN Reject("Write only supported for SPI/25-series")
       ELSE IF ~file.readMode
       THEN Reject("Write requires a file opened for reading")
       ELSE /\ NewDutForWrite(dev)
            /\ loc' = [loc EXCEPT !.addr = dev.offset, !.remaining = dev.bytes,
                                  !.chunk = Chunk(dev.bytes)]
            /\ pc' = WriteLoop(dev.bytes)
            /\ UNCHANGED <<call, dev, file, chip, report>>

WrWeStart ==
    /\ pc = "wr_we_start"
    /\ DoStart("wr_we_cmd")
    /\ UNCHANGED <<dev, file, loc>>

WrWeCmd ==
    /\ pc = "wr_we_cmd"
    /\ DoTx(WRITE_ENABLE, "wr_we_stop")
    /\ UNCHANGED <<dev, file, loc>>

WrWeStop ==
    /\ pc = "wr_we_stop"
    /\ DoStop("wr_pp_start")
    /\ UNCHANGED <<dev, file, loc>>

WrPpStart ==
    /\ pc = "wr_pp_start"
    /\ DoStart("wr_pp_cmd")
    /\ UNCHANGED <<dev, file, loc>>

WrPpCmd ==
    /\ pc = "wr_pp_cmd"
    /\ DoTx(PAGE_PROGRAM, "wr_pp_addr")
    /\ loc' = [loc EXCEPT !.i = 0]
    /\ UNCHANGED <<dev, file>>

WrPpAddr ==
    /\ pc = "wr_pp_addr"
    /\ DoTx(AddrByte(loc.addr, loc.i), IF loc.i < 2 THEN "wr_pp_addr" ELSE "wr_data")
    /\ loc' = [loc EXCEPT !.i = IF @ < 2 THEN @ + 1 ELSE 0]
    /\ UNCHANGED <<dev, file>>

\* One iteration of: for (i = 0; i < chunk; i++) {
\*     if (!file.pullByteFromFile(b)) break;  dut.tx_byte(b); }
WrData ==
    /\ pc = "wr_data"
    /\ LET r == pullByteFromFile(file)
       IN  /\ file' = r.f
           /\ \/ /\ r.ok
                 /\ DoTx(r.byte, IF loc.i + 1 < loc.chunk THEN "wr_data" ELSE "wr_pp_stop")
                 /\ loc' = [loc EXCEPT !.i = @ + 1]
              \/ /\ ~r.ok
                 /\ pc' = "wr_pp_stop"
                 /\ UNCHANGED <<call, dut, hw, bus, chip, report, loc>>
    /\ UNCHANGED dev

WrPpStopUpdatesDevice ==
    /\ pc = "wr_pp_stop"
    /\ DoStop("wb_start")
    /\ dev' = [dev EXCEPT !.bytes = loc.remaining - loc.chunk]
    /\ UNCHANGED <<file, loc>>

\* dut.stop() that ends the page program
WrPpStop ==
    /\ pc = "wr_pp_stop"
    /\ DoStop("wb_start")
    /\ UNCHANGED <<dev, file, loc>>

(***************************************************************************)
(* splasher::eraseFlash                                                    *)
(***************************************************************************)
EraseEntry ==
    /\ pc = "entry"
    /\ call.op = "erase"
    /\ IF Unsupported(dev)
       THEN Reject("Erase only supported for SPI/25-series")
       ELSE /\ NewDutForWrite(dev)
            /\ pc' = "er_we_start"
            /\ UNCHANGED <<call, dev, file, chip, loc, report>>

ErWeStart ==
    /\ pc = "er_we_start"
    /\ DoStart("er_we_cmd")
    /\ UNCHANGED <<dev, file, loc>>

ErWeCmd ==
    /\ pc = "er_we_cmd"
    /\ DoTx(WRITE_ENABLE, "er_we_stop")
    /\ UNCHANGED <<dev, file, loc>>

ErWeStop ==
    /\ pc = "er_we_stop"
    /\ DoStop("er_start")
    /\ UNCHANGED <<dev, file, loc>>

\* if (byteCount == 0)
IsChipEraseNever(byteCount) == FALSE

IsChipErase(byteCount) == byteCount = 0

\* dut.start(); if (byteCount == 0) ... else { addr = dev.offset;
\* end = dev.offset + byteCount; while (addr < end) ...
ErStart ==
    /\ pc = "er_start"
    /\ DoStart(IF IsChipErase(call.byteCount) THEN "er_chip"
               ELSE EraseLoop(dev.offset, dev.offset + call.byteCount))
    /\ loc' = IF IsChipErase(call.byteCount) THEN loc
              ELSE [loc EXCEPT !.addr = dev.offset,
                               !.end = dev.offset + call.byteCount]
    /\ UNCHANGED <<dev, file>>

ErChip ==
    /\ pc = "er_chip"
    /\ DoTx(CHIP_ERASE, "er_stop")
    /\ UNCHANGED <<dev, file, loc>>

EsWeStart ==
    /\ pc = "es_we_start"
    /\ DoStart("es_we_cmd")
    /\ UNCHANGED <<dev, file, loc>>

EsWeCmd ==
    /\ pc = "es_we_cmd"
    /\ DoTx(WRITE_ENABLE, "es_we_stop")
    /\ UNCHANGED <<dev, file, loc>>

EsWeStop ==
    /\ pc = "es_we_stop"
    /\ DoStop("es_se_start")
    /\ UNCHANGED <<dev, file, loc>>

EsSeStart ==
    /\ pc = "es_se_start"
    /\ DoStart("es_se_cmd")
    /\ UNCHANGED <<dev, file, loc>>

EsSeCmd ==
    /\ pc = "es_se_cmd"
    /\ DoTx(SECTOR_ERASE_4K, "es_se_addr")
    /\ loc' = [loc EXCEPT !.i = 0]
    /\ UNCHANGED <<dev, file>>

EsSeAddr ==
    /\ pc = "es_se_addr"
    /\ DoTx(AddrByte(loc.addr, loc.i), IF loc.i < 2 THEN "es_se_addr" ELSE "es_se_stop")
    /\ loc' = [loc EXCEPT !.i = IF @ < 2 THEN @ + 1 ELSE 0]
    /\ UNCHANGED <<dev, file>>

EsSeStop ==
    /\ pc = "es_se_stop"
    /\ DoStop("wb_start")
    /\ UNCHANGED <<dev, file, loc>>

\* The dut.stop() that ends eraseFlash.
ErStop ==
    /\ pc = "er_stop"
    /\ DoStop("done")
    /\ UNCHANGED <<dev, file, loc>>

(***************************************************************************)
(* The operations called with inputs from bounded sets                     *)
(***************************************************************************)
Interfaces == {"SPI", "DSPI", "QSPI", "I2C"}
Protocols == {"S24", "S25"}
\* Device::KHz is an int any caller can set: unconstrained, the default, and
\* a rate above MAX_KHZ.
KHzValues == {0, 100, 2000}
\* Start offsets: 0; one aligned to neither a page nor a sector, with three
\* different address bytes; one that does not fit in 24 bits.
Offsets == {0, 66302, 16777216}
IdTriples == {<<239, 64, 24>>, <<0, 0, 0>>, <<255, 255, 255>>}
DumpCounts == 0..MaxDumpBytes
WriteCounts == {p * S25_PAGE_SIZE + r : p \in 0..MaxPages, r \in {0, 44}}
EraseCounts == {0, 1, SECTOR_SIZE + 1} \cup {s * SECTOR_SIZE : s \in 1..MaxSectors}
\* Source files: empty, shorter than a page, and longer than any byte count.
FileLens == {0, 100, (MaxPages + 1) * S25_PAGE_SIZE}

Devices(counts) ==
    [interface : Interfaces, protocol : Protocols, KHz : KHzValues,
     bytes : counts, offset : Offsets, jedecId : {<<-1, -1, -1>>},
     jedecValid : {FALSE}]

Init ==
    /\ pc = "entry"
    /\ \/ /\ call = [op |-> "dump", byteCount |-> 0]
          /\ dev \in Devices(DumpCounts)
          /\ file = OpenWrite
          /\ chip \in {[NoChip EXCEPT !.id = t] : t \in IdTriples}
       \/ /\ call = [op |-> "jedec", byteCount |-> 0]
          /\ dev \in Devices({0})
          /\ file = NoFile
          /\ chip \in {[NoChip EXCEPT !.id = t] : t \in IdTriples}
       \/ /\ call = [op |-> "write", byteCount |-> 0]
          /\ dev \in Devices(WriteCounts)
          /\ file \in {OpenWrite} \cup {OpenRead(SourceBytes(n)) : n \in FileLens}
          /\ chip = NoChip
       \/ /\ dev \in Devices(EraseCounts)
          /\ call = [op |-> "erase", byteCount |-> dev.bytes]
          /\ file = NoFile
          /\ chip = NoChip
    /\ dut = DutNew
    /\ hw = HwReset
    /\ bus = <<>>
    /\ loc = NoLoc
    /\ report = <<>>

Next ==
    \/ JedecEntry \/ IdStart \/ IdCmd \/ IdRead \/ IdStop
    \/ DumpEntry \/ RdStart \/ RdCmd \/ RdAddr \/ RdByte \/ RdStop
    \/ WbStart \/ WbCmd \/ WbRead \/ WbStop
    \/ WriteEntry \/ WrWeStart \/ WrWeCmd \/ WrWeStop \/ WrPpStart \/ WrPpCmd
    \/ WrPpAddr \/ WrData \/ WrPpStop
    \/ EraseEntry \/ ErWeStart \/ ErWeCmd \/ ErWeStop \/ ErStart \/ ErChip
    \/ EsWeStart \/ EsWeCmd \/ EsWeStop \/ EsSeStart \/ EsSeCmd \/ EsSeAddr
    \/ EsSeStop \/ ErStop

Spec == Init /\ [][Next]_vars

(***************************************************************************)
(* initRead or initWrite called with a Device in any state and a transport *)
(* of any class; an hwSPI transport has been constructed, with any timing  *)
(* set since, and a stub has no pins.                                      *)
(***************************************************************************)
InitInitCalls ==
    /\ pc = "entry"
    /\ call \in [op : {"initRead", "initWrite"}, byteCount : {0}, hw : Transports]
    /\ dev \in {[d EXCEPT !.jedecValid = v] : d \in Devices({0}), v \in BOOLEAN}
    /\ file = NoFile
    /\ chip \in {[NoChip EXCEPT !.id = t] : t \in IdTriples}
    /\ dut \in {DutNew, setTiming(DutNew, 100)}
    /\ hw = IF call.hw = "hwSPI" THEN Construct(HwReset) ELSE HwReset
    /\ bus = IF call.hw = "hwSPI" THEN <<<<"stop", -1>>>> ELSE <<>>
    /\ loc = NoLoc
    /\ report = <<>>

NextInitCalls == InitReadEntry \/ InitWriteEntry \/ IdStart \/ IdCmd \/ IdRead \/ IdStop

SpecInitCalls == InitInitCalls /\ [][NextInitCalls]_vars

(***************************************************************************)
(* A BinFile opened for writing: bytes are pushed, then it is destroyed.   *)
(***************************************************************************)
\* The k-th byte pushed.
PushByte(seed, k) == (seed * k + 3) % 256

\* Up to one byte more than twice the capacity of the array.
PushCounts == 0..(2 * MaxRamBytes + 1)

InitFile ==
    /\ pc = "f_push"
    /\ call \in [op : {"push"}, byteCount : {0}, seed : {1, 7}]
    /\ file = OpenWrite
    /\ loc = NoLoc
    /\ dev = DeviceNew
    /\ dut = DutNew
    /\ hw = HwReset
    /\ bus = <<>>
    /\ chip = NoChip
    /\ report = <<>>

FilePush ==
    /\ pc = "f_push"
    /\ loc.cByte + 1 \in PushCounts
    /\ file' = pushByteToArray(file, PushByte(call.seed, loc.cByte + 1))
    /\ loc' = [loc EXCEPT !.cByte = @ + 1]
    /\ UNCHANGED <<pc, call, dev, dut, hw, bus, chip, report>>

FileDestroy ==
    /\ pc = "f_push"
    /\ file' = BinFileDestroy(file)
    /\ pc' = "done"
    /\ UNCHANGED <<call, dev, dut, hw, bus, chip, loc, report>>

NextFile == FilePush \/ FileDestroy

SpecFile == InitFile /\ [][NextFile]_vars

(***************************************************************************)
(* hwSPI::setTiming called with every rate the command line lets through   *)
(***************************************************************************)
InitTiming ==
    /\ pc = "t_call"
    /\ call \in [op : {"setTiming"}, khz : 0..MAX_KHZ]
    /\ dut \in {DutNew, [wait_clk |-> 500, wait_byte |-> 500, wait_bit |-> 500]}
    /\ dev = DeviceNew
    /\ file = NoFile
    /\ hw = HwReset
    /\ bus = <<>>
    /\ chip = NoChip
    /\ loc = NoLoc
    /\ report = <<>>

TimingCall ==
    /\ pc = "t_call"
    /\ dut' = setTiming(dut, call.khz)
    /\ pc' = "done"
    /\ UNCHANGED <<call, dev, file, hw, bus, chip, loc, report>>

NextTiming == TimingCall

SpecTiming == InitTiming /\ [][NextTiming]_vars

(***************************************************************************)
(* hwSPI::writeByte and hwSPI::readByte on a constructed transport: one    *)
(* writeByte; one readByte against a chip answering any byte; writeByte    *)
(* followed by readByte with data-in wired to data-out ("loopback"), and   *)
(* with a loop-back that plays back what it captured ("echo").             *)
(***************************************************************************)
XferKHz == {0, 100, MAX_KHZ}

InitXfer ==
    /\ call \in [op : {"writeByte", "readByte", "loopback", "echo"}, byte : Byte,
                  khz : XferKHz]
    /\ pc = IF call.op = "readByte" THEN "x_read" ELSE "x_write"
    /\ dut = setTiming(DutNew, call.khz)
    /\ hw = Construct(HwReset)
    /\ chip = [NoChip EXCEPT !.loop = IF call.op = "loopback" THEN "wire"
                                       ELSE IF call.op = "echo" THEN "echo"
                                       ELSE "none"]
    /\ dev = DeviceNew
    /\ file = NoFile
    /\ bus = <<>>
    /\ loc = NoLoc
    /\ report = <<>>

XferWriteByte ==
    /\ pc = "x_write"
    /\ hw' = tx_byte(Fresh(hw), dut, call.byte)
    /\ bus' = Append(bus, <<"tx", call.byte>>)
    /\ chip' = [chip EXCEPT !.fifo = Captured(hw, hw'.trace)]
    /\ pc' = IF call.op \in {"loopback", "echo"} THEN "x_read" ELSE "done"
    /\ UNCHANGED <<call, dev, file, dut, loc, report>>

XferReadByte ==
    /\ pc = "x_read"
    /\ LET r == rx_byte(Fresh(hw), dut,
                        [loop |-> chip.loop, fifo |-> chip.fifo, byte |-> call.byte])
       IN  /\ hw' = r.h
           /\ bus' = Append(bus, <<"rx", r.data>>)
    /\ pc' = "done"
    /\ UNCHANGED <<call, dev, file, dut, chip, loc, report>>

NextXfer == XferWriteByte \/ XferReadByte

SpecXfer == InitXfer /\ [][NextXfer]_vars

(***************************************************************************)
(* writeFileToFlash and eraseFlash run to their end, against a chip that   *)
(* finishes every program and erase and against one that never does.  The  *)
(* program is one thread that always takes its next step.                  *)
(***************************************************************************)
LiveDevices(counts) ==
    {d \in Devices(counts) :
        d.interface = "SPI" /\ d.protocol = "S25" /\ d.KHz = 100 /\ d.offset = 0}

LiveChips == {NoChip, [NoChip EXCEPT !.stuck = TRUE]}

InitLive ==
    /\ pc = "entry"
    /\ \/ /\ call = [op |-> "write", byteCount |-> 0]
          /\ dev \in LiveDevices(WriteCounts)
          /\ file \in {OpenRead(SourceBytes(n)) : n \in FileLens}
       \/ /\ dev \in LiveDevices(EraseCounts)
          /\ call = [op |-> "erase", byteCount |-> dev.bytes]
          /\ file = NoFile
    /\ chip \in LiveChips
    /\ dut = DutNew
    /\ hw = HwReset
    /\ bus = <<>>
    /\ loc = NoLoc
    /\ report = <<>>

NextLive ==
    \/ WbStart \/ WbCmd \/ WbRead \/ WbStop
    \/ WriteEntry \/ WrWeStart \/ WrWeCmd \/ WrWeStop \/ WrPpStart \/ WrPpCmd
    \/ WrPpAddr \/ WrData \/ WrPpStop
    \/ EraseEntry \/ ErWeStart \/ ErWeCmd \/ ErWeStop \/ ErStart \/ ErChip
    \/ EsWeStart \/ EsWeCmd \/ EsWeStop \/ EsSeStart \/ EsSeCmd \/ EsSeAddr
    \/ EsSeStop \/ ErStop

SpecLive == InitLive /\ [][NextLive]_vars /\ WF_vars(NextLive)

(***************************************************************************)
(* main: the command line.  An argument string is the sequence of its      *)
(* characters.  The operation main ends up calling is recorded with the    *)
(* Device it is given; what it then does on the pins is Spec.              *)
(***************************************************************************)
Digits == <<"0", "1", "2", "3", "4", "5", "6", "7", "8", "9">>

IsDigit(c) == \E d \in 1..10 : Digits[d] = c

DigitValue(c) == (CHOOSE d \in 1..10 : Digits[d] = c) - 1

\* The largest int.
INT_MAX == 2147483647

\* byteString.find_first_not_of("0123456789"): the index of that character
\* counted from 1, and 0 for npos.
FirstNotDigit(s) ==
    LET bad == {k \in 1..Len(s) : ~IsDigit(s[k])}
    IN  IF bad = {} THEN 0 ELSE CHOOSE k \in bad : \A j \in bad : k <= j

\* The value of the digits of s from the k-th on, appended to acc; -1 when
\* no int holds it.
RECURSIVE DecValue(_, _, _)
DecValue(s, k, acc) ==
    IF k > Len(s) THEN acc
    ELSE IF acc > (INT_MAX - DigitValue(s[k])) \div 10 THEN -1
    ELSE DecValue(s, k + 1, 10 * acc + DigitValue(s[k]))

\* std::stoi on a string of digits: it throws std::invalid_argument on the
\* empty string and std::out_of_range on a value no int holds.
stoi(s) ==
    IF s = <<>> \/ DecValue(s, 1, 0) < 0
    THEN [thrown |-> TRUE, val |-> 0]
    ELSE [thrown |-> FALSE, val |-> DecValue(s, 1, 0)]

\* An unsigned int as its two 16-bit halves.
U32(n) == [hi |-> n \div 65536, lo |-> n % 65536]

AddU32(a, b) ==
    [hi |-> (a.hi + b.hi + (a.lo + b.lo) \div 65536) % 65536,
     lo |-> (a.lo + b.lo) % 65536]

\* std::stoi(byteString) * multiplier: an int times an unsigned int is an
\* unsigned int, the product modulo 2^32.
RECURSIVE MulU32(_, _)
MulU32(a, m) ==
    IF m = 0 THEN U32(0)
    ELSE LET even == MulU32(AddU32(a, a), m \div 2)
         IN  IF m % 2 = 1 THEN AddU32(even, a) ELSE even

\* bytes > 268435456
BytesTooLarge(bytes) ==
    bytes.hi > MAX_BYTES \div 65536
        \/ (bytes.hi = MAX_BYTES \div 65536 /\ bytes.lo > MAX_BYTES % 65536)

ValueU32(bytes) == 65536 * bytes.hi + bytes.lo

Returned(v, msgs) == [thrown |-> FALSE, val |-> v, msgs |-> msgs]

Thrown == [thrown |-> TRUE, val |-> 0, msgs |-> <<>>]

SpeedTooHigh(speedInt) == speedInt > MAX_KHZ

convertKHz(speedString) ==
    IF speedString = <<"m", "a", "x">> THEN Returned(0, <<>>)
    ELSE IF FirstNotDigit(speedString) # 0 THEN Returned(-1, <<"speedNotValid">>)
    ELSE IF stoi(speedString).thrown THEN Thrown
    ELSE IF SpeedTooHigh(stoi(speedString).val) THEN Returned(-2, <<"speedTooHigh">>)
    ELSE Returned(stoi(speedString).val, <<>>)

convertBytes(byteString) ==
    LET notNumeral == FirstNotDigit(byteString)
        lastIndx   == Len(byteString)
        lastChar   == byteString[lastIndx]
        multiplier == IF notNumeral = 0 THEN 1
                      ELSE IF lastChar = "K" THEN 1024 ELSE 1048576
        numerals   == IF notNumeral = 0 THEN byteString
                      ELSE SubSeq(byteString, 1, lastIndx - 1)
    IN  IF notNumeral # 0 /\ notNumeral # lastIndx
        THEN Returned(0, <<"bytesNotValid">>)
        ELSE IF notNumeral # 0 /\ lastChar \notin {"K", "M"}
        THEN Returned(0, <<"bytesNotValid">>)
        ELSE IF stoi(numerals).thrown THEN Thrown
        ELSE IF BytesTooLarge(MulU32(U32(stoi(numerals).val), multiplier))
        THEN Returned(0, <<"bytesTooLarge">>)
        ELSE Returned(ValueU32(MulU32(U32(stoi(numerals).val), multiplier)), <<>>)

\* An option of the command line: whether it was given, and its string.
NoArg == [given |-> FALSE, str |-> <<>>]

Arg(s) == [given |-> TRUE, str |-> s]

\* main's locals: the status the process ends with, the operation called
\* and eraseFlash's byteCount, whether gpioTerminate was called.
NoMain == [ret |-> "none", ran |-> "none", count |-> 0, term |-> FALSE]

\* gpioTerminate(); exit(status) or return status
MainExit(status, msgs) ==
    /\ pc' = "done"
    /\ loc' = [loc EXCEPT !.ret = status, !.term = TRUE]
    /\ report' = report \o msgs

\* An exception nothing catches leaves main through std::terminate.
MainAbort ==
    /\ pc' = "done"
    /\ loc' = [loc EXCEPT !.ret = "abort"]
    /\ report' = report

Given(b) == IF b THEN 1 ELSE 0

Argc(c) ==
    1 + Given(c.help) + Given(c.jedec) + Given(c.erase) + Given(c.write)
      + Given(c.filename # "none") + 2 * Given(c.iface.given)
      + 2 * Given(c.speed.given) + 2 * Given(c.bytes.given)
      + 2 * Given(c.offset.given)

\* argc == 1, and --help
MainHelp ==
    /\ pc = "m_help"
    /\ IF Argc(call) = 1 THEN MainExit("EXIT_FAILURE", <<"shortHelp">>)
       ELSE IF call.help THEN MainExit("EXIT_SUCCESS", <<"longHelp">>)
       ELSE pc' = "m_jedec" /\ UNCHANGED <<loc, report>>
    /\ UNCHANGED <<call, dev, file, dut, hw, bus, chip>>

\* --jedec: the Device is SPI/25-series, so that splasher::readJedecId
\* reads the identity and returns true.
MainJedec ==
    /\ pc = "m_jedec"
    /\ IF ~call.jedec
       THEN pc' = "m_file" /\ UNCHANGED <<dev, loc, report>>
       ELSE LET k == IF call.speed.given THEN convertKHz(call.speed.str)
                     ELSE Returned(100, <<>>)
            IN  IF k.thrown THEN MainAbort /\ UNCHANGED dev
                ELSE /\ dev' = [dev EXCEPT !.interface = "SPI", !.protocol = "S25",
                                           !.KHz = k.val]
                     /\ IF k.val < 0 THEN MainExit("EXIT_FAILURE", k.msgs)
                        ELSE /\ pc' = "done"
                             /\ loc' = [loc EXCEPT !.ran = "readJedecId",
                                                   !.ret = "EXIT_SUCCESS",
                                                   !.term = TRUE]
                             /\ report' = report \o <<"JEDEC ID">>
    /\ UNCHANGED <<call, file, dut, hw, bus, chip>>

\* CLIah::stringVector.size() == 0
MainFilename ==
    /\ pc = "m_file"
    /\ IF call.filename = "none"
       THEN MainExit("EXIT_FAILURE", <<"No filename provided">>) /\ UNCHANGED dev
       ELSE /\ pc' = "m_iface"
            /\ dev' = [dev EXCEPT !.offset = 0]
            /\ UNCHANGED <<loc, report>>
    /\ UNCHANGED <<call, file, dut, hw, bus, chip>>

KnownIface(iface) == iface \in {<<"spi">>, <<"dspi">>, <<"qspi">>, <<"i2c">>}

IfaceOf(iface) ==
    IF iface = <<"spi">> THEN "SPI" ELSE IF iface = <<"dspi">> THEN "DSPI"
    ELSE IF iface = <<"qspi">> THEN "QSPI" ELSE "I2C"

ProtOf(iface) == IF iface = <<"i2c">> THEN "S24" ELSE "S25"

MainInterface ==
    /\ pc = "m_iface"
    /\ IF ~call.iface.given
       THEN /\ dev' = [dev EXCEPT !.interface = "SPI", !.protocol = "S25"]
            /\ pc' = "m_speed"
            /\ UNCHANGED <<loc, report>>
       ELSE IF KnownIface(call.iface.str)
       THEN /\ dev' = [dev EXCEPT !.interface = IfaceOf(call.iface.str),
                                  !.protocol = ProtOf(call.iface.str)]
            /\ pc' = "m_speed"
            /\ UNCHANGED <<loc, report>>
       ELSE MainExit("EXIT_FAILURE", <<"Unknown interface">>) /\ UNCHANGED dev
    /\ UNCHANGED <<call, file, dut, hw, bus, chip>>

MainSpeed ==
    /\ pc = "m_speed"
    /\ IF ~call.speed.given
       THEN /\ dev' = [dev EXCEPT !.KHz = 100]
            /\ pc' = "m_bytes"
            /\ UNCHANGED <<loc, report>>
       ELSE LET k == convertKHz(call.speed.str)
            IN  IF k.thrown THEN MainAbort /\ UNCHANGED dev
                ELSE IF k.val < 0
                THEN MainExit("EXIT_FAILURE", k.msgs) /\ UNCHANGED dev
                ELSE /\ dev' = [dev EXCEPT !.KHz = k.val]
                     /\ pc' = "m_bytes"
                     /\ UNCHANGED <<loc, report>>
    /\ UNCHANGED <<call, file, dut, hw, bus, chip>>

needBytes == ~call.erase \/ call.write

MainBytes ==
    /\ pc = "m_bytes"
    /\ IF call.bytes.given
       THEN LET b == convertBytes(call.bytes.str)
            IN  IF b.thrown THEN MainAbort /\ UNCHANGED dev
                ELSE IF b.val = 0
                THEN MainExit("EXIT_FAILURE", b.msgs) /\ UNCHANGED dev
                ELSE /\ dev' = [dev EXCEPT !.bytes = b.val]
                     /\ pc' = "m_offset"
                     /\ UNCHANGED <<loc, report>>
       ELSE IF needBytes
       THEN MainExit("EXIT_FAILURE", <<"bytesNotSpecified">>) /\ UNCHANGED dev
       ELSE pc' = "m_offset" /\ UNCHANGED <<dev, loc, report>>
    /\ UNCHANGED <<call, file, dut, hw, bus, chip>>

MainOffset ==
    /\ pc = "m_offset"
    /\ IF ~call.offset.given
       THEN pc' = "m_run" /\ UNCHANGED <<dev, loc, report>>
       ELSE LET o == convertBytes(call.offset.str)
            IN  IF o.thrown THEN MainAbort /\ UNCHANGED dev
                ELSE IF o.val = 0
                THEN /\ MainExit("EXIT_FAILURE", o.msgs \o <<"offsetNotValid">>)
                     /\ UNCHANGED dev
                ELSE /\ dev' = [dev EXCEPT !.offset = o.val]
                     /\ pc' = "m_run"
                     /\ UNCHANGED <<loc, report>>
    /\ UNCHANGED <<call, file, dut, hw, bus, chip>>

\* The operation called: eraseFlash, writeFileToFlash or dumpFlashToFile.
\* BinFile's constructor leaves the process with exit(EXIT_FAILURE) when the
\* file does not open.
MainRun ==
    /\ pc = "m_run"
    /\ pc' = "done"
    /\ IF call.erase
       THEN /\ loc' = [loc EXCEPT !.ran = "eraseFlash", !.ret = "0", !.term = TRUE,
                                  !.count = IF call.bytes.given THEN dev.bytes ELSE 0]
            /\ UNCHANGED <<file, report>>
       ELSE IF call.filename = "fails"
       THEN /\ loc' = [loc EXCEPT !.ret = "EXIT_FAILURE"]
            /\ report' = Append(report, "Cannot open or create file")
            /\ UNCHANGED file
       ELSE /\ loc' = [loc EXCEPT !.ret = "0", !.term = TRUE,
                          !.ran = IF call.write THEN "writeFileToFlash"
                                  ELSE "dumpFlashToFile"]
            /\ file' = IF call.write THEN OpenRead(<<>>) ELSE OpenWrite
            /\ UNCHANGED report
    /\ UNCHANGED <<call, dev, dut, hw, bus, chip>>

\* The command lines tried.
SpeedArgs ==
    {NoArg, Arg(<<"m", "a", "x">>), Arg(<<"1", "0", "0", "0">>),
     Arg(<<"1", "0", "0", "1">>), Arg(<<"1", "k">>),
     Arg(<<"9", "9", "9", "9", "9", "9", "9", "9", "9", "9">>)}

BytesArgs ==
    {NoArg, Arg(<<"0">>), Arg(<<"3", "0", "0">>), Arg(<<"6", "4", "K">>),
     Arg(<<"2", "5", "6", "M">>), Arg(<<"2", "5", "7", "M">>),
     Arg(<<"2", "6", "8", "4", "3", "5", "4", "5", "7">>),
     Arg(<<"4", "0", "9", "6", "M">>), Arg(<<"4", "0", "9", "7", "M">>),
     Arg(<<"4", "1", "9", "4", "3", "0", "5", "K">>),
     Arg(<<"2", "1", "4", "7", "4", "8", "3", "6", "4", "8">>),
     Arg(<<"K">>), Arg(<<"1", "K", "2">>), Arg(<<"1", "k">>)}

OffsetArgs ==
    {NoArg, Arg(<<"0">>), Arg(<<"0", "K">>), Arg(<<"4", "0", "9", "6">>),
     Arg(<<"1", "6", "M">>), Arg(<<"2", "5", "7", "M">>), Arg(<<"x">>)}

IfaceArgs ==
    {NoArg, Arg(<<"spi">>), Arg(<<"dspi">>), Arg(<<"qspi">>), Arg(<<"i2c">>),
     Arg(<<"usb">>)}

\* The file name given, if any, and whether that file opens.
FileArgs == {"none", "opens", "fails"}

CommandLines ==
    [help : BOOLEAN, jedec : BOOLEAN, erase : BOOLEAN, write : BOOLEAN,
     filename : FileArgs, iface : IfaceArgs, speed : SpeedArgs,
     bytes : BytesArgs, offset : OffsetArgs]

\* main after gpioInitialise() succeeded and the arguments were scanned.
\* --help and --jedec are tried with every --speed and nothing else.
InitCli ==
    /\ pc = "m_help"
    /\ call \in {c \in CommandLines :
                    (c.help \/ c.jedec) =>
                        /\ ~c.erase /\ ~c.write /\ c.filename = "none"
                        /\ ~c.iface.given /\ ~c.bytes.given /\ ~c.offset.given}
    /\ dev = DeviceNew
    /\ file = NoFile
    /\ dut = DutNew
    /\ hw = HwReset
    /\ bus = <<>>
    /\ chip = NoChip
    /\ loc = NoMain
    /\ report = <<>>

NextCli ==
    \/ MainHelp \/ MainJedec \/ MainFilename \/ MainInterface \/ MainSpeed
    \/ MainBytes \/ MainOffset \/ MainRun

SpecCli == InitCli /\ [][NextCli]_vars

(***************************************************************************)
(* What the chip sees: the frames between chip-select going low and going  *)
(* high again, each one the bytes clocked while it was low.                *)
(***************************************************************************)
\* The k-th smallest member of a set of numbers.
Nth(S, k) == CHOOSE x \in S : Cardinality({y \in S : y < x}) = k - 1

\* The frame that the stop call at index c closes.
FrameClosedAt(b, c) ==
    LET before == {o \in Opens(b) : o < c}
    IN  SelectSeq(SubSeq(b, MaxOf(before) + 1, c - 1), IsByte)

FramesOf(b) ==
    [i \in 1..Cardinality(Closes(b)) |-> FrameClosedAt(b, Nth(Closes(b), i))]

Tx(seq) == [k \in 1..Len(seq) |-> <<"tx", seq[k]>>]

Enc24(x) == <<(x \div 65536) % 256, (x \div 256) % 256, x % 256>>

IsStatusFrame(f) ==
    Len(f) = 2 /\ f[1] = <<"tx", READ_STATUS>> /\ f[2][1] = "rx"

IsWeFrame(f) == f = <<<<"tx", WRITE_ENABLE>>>>

\* The frames other than status reads, in order.
Commands(fs) == SelectSeq(fs, LAMBDA f : ~IsStatusFrame(f))

\* Every frame of fs from index k on is a status read that reports busy,
\* up to a status read that reports ready, which the frame at index
\* nxt - 1 is; nxt is where the next command starts.
RECURSIVE PollEnd(_, _)
PollEnd(fs, k) ==
    IF k > Len(fs) \/ ~IsStatusFrame(fs[k]) THEN 0
    ELSE IF fs[k][2][2] % 2 = 0 THEN k + 1
    ELSE PollEnd(fs, k + 1)

CeilDiv(n, d) == (n + d - 1) \div d

ValidPairing == dev.interface = "SPI" /\ dev.protocol = "S25"

\* The transport calls made after the constructor returned.
Calls == Tail(bus)

StartCall == <<"start", 1>>
StopCall == <<"stop", 0>>

IdentifyCalls(id) ==
    <<StartCall, <<"tx", READ_JEDEC_ID>>, <<"rx", id[1]>>, <<"rx", id[2]>>,
      <<"rx", id[3]>>, StopCall>>

\* What a file opened for writing holds once its array is flushed.
SinkBytes(f) == f.disk \o SubSeq(f.arr, 1, f.byteArrayPos)

\* The bytes pulled from a source file so far.
Pulled(f) == f.rdpos - (f.byteArrayLen - f.byteArrayPos)

(***************************************************************************)
(* The claims                                                              *)
(***************************************************************************)

C1_Rejected ==
    /\ call.op \in {"dump", "write", "erase"}
    /\ \/ dev.interface # "SPI"
       \/ dev.protocol # "S25"
       \/ call.op = "write" /\ ~file.readMode

\* C1: when dumpFlashToFile, writeFileToFlash or eraseFlash is called with
\* a pairing other than SPI + 25-series, or writeFileToFlash with a file not
\* in read mode, the operation only reports and returns: no pin mode is
\* set, no pin is written or read, no delay is made and no transport
\* object is constructed.
C1_RejectTouchesNoPin ==
    C1_Rejected =>
        /\ pc \in {"entry", "done"}
        /\ pc = "done" => Len(report) = 1
        /\ hw.nmode = 0 /\ hw.nwrite = 0 /\ hw.nread = 0 /\ hw.ndelay = 0
        /\ hw = HwReset
        /\ dut = DutNew
        /\ bus = <<>>

C1_Witness ==
    /\ pc = "done"
    /\ call.op = "dump"
    /\ dev.interface = "I2C" /\ dev.protocol = "S25"
    /\ Len(report) = 1
    /\ hw.nwrite = 0

C2_SourceRanOut ==
    /\ call.op = "write" /\ ValidPairing /\ file.readMode
    /\ Len(file.disk) < dev.bytes

\* C2: in writeFileToFlash, when the source runs out before byteCount bytes
\* were consumed, the page in progress carries only the bytes read (no
\* padding), the program address has advanced by the number of bytes
\* written, and no write-enable or page-program follows the page during
\* which the source ran out.
C2_TruncatesAndStops ==
    (pc = "done" /\ C2_SourceRanOut) =>
        LET cmds == Commands(FramesOf(bus))
            n    == Len(file.disk)
        IN  /\ loc.addr = dev.offset + n
            /\ Len(cmds) = 2 * (n \div S25_PAGE_SIZE + 1)
            /\ \A k \in 1..Len(cmds) :
                   IF k % 2 = 1 THEN IsWeFrame(cmds[k])
                   ELSE LET i == k \div 2 - 1
                        IN  cmds[k] = Tx(<<PAGE_PROGRAM>>
                                \o Enc24(dev.offset + S25_PAGE_SIZE * i)
                                \o SubSeq(file.disk, S25_PAGE_SIZE * i + 1,
                                          Min(n, S25_PAGE_SIZE * (i + 1))))

\* C3: after the constructor, start() is never called while a transaction
\* is open and every stop() closes an open transaction.
C3_StartStopAlternate ==
    \A k \in 2..Len(bus) :
        /\ bus[k][1] = "start" => bus[k][2] = 1
        /\ bus[k][1] = "stop" => bus[k][2] = 0

\* C4: eraseFlash with byteCount N > 0 at offset A issues ceil(N/4096)
\* triples (write-enable, sector-erase with the 3-byte address of
\* A + 4096*i, busy-poll) and no other command.
C4_RangeEraseTriples ==
    (pc = "done" /\ call.op = "erase" /\ ValidPairing /\ call.byteCount > 0) =>
        LET fs   == FramesOf(bus)
            cmds == Commands(fs)
            n    == CeilDiv(call.byteCount, SECTOR_SIZE)
        IN  /\ Len(cmds) = 2 * n
            /\ \A i \in 0..(n - 1) :
                  /\ IsWeFrame(cmds[2 * i + 1])
                  /\ cmds[2 * i + 2] =
                        Tx(<<SECTOR_ERASE_4K>> \o Enc24(dev.offset + SECTOR_SIZE * i))
            /\ \A k \in 1..Len(fs) :
                  (~IsStatusFrame(fs[k]) /\ ~IsWeFrame(fs[k])) => PollEnd(fs, k + 1) # 0

C5_ChipEraseCalls ==
    (pc = "done" /\ call.op = "erase" /\ ValidPairing /\ call.byteCount = 0) =>
        Calls = <<StartCall, <<"tx", WRITE_ENABLE>>, StopCall,
                  StartCall, <<"tx", CHIP_ERASE>>, StopCall>>

C5_NoPollInChipErase ==
    (call.op = "erase" /\ ValidPairing /\ call.byteCount = 0) =>
        /\ pc \notin {"wb_start", "wb_cmd", "wb_rx", "wb_stop"}
        /\ \A k \in 1..Len(bus) : bus[k][1] # "rx"

\* C5: eraseFlash with byteCount 0 makes exactly these calls: a transaction
\* with the write-enable opcode, then a transaction with the chip-erase
\* opcode alone; no address byte, no status read.
C5_ChipErase == C5_ChipEraseCalls /\ C5_NoPollInChipErase

C5_Witness ==
    /\ pc = "done" /\ call.op = "erase" /\ ValidPairing /\ call.byteCount = 0
    /\ bus[Len(bus) - 1] = <<"tx", CHIP_ERASE>>

RECURSIVE C6_Match(_, _, _)
C6_Match(fs, k, i) ==
    IF i >= CeilDiv(dev.bytes, S25_PAGE_SIZE) THEN k = Len(fs) + 1
    ELSE /\ k + 2 <= Len(fs)
         /\ IsWeFrame(fs[k])
         /\ fs[k + 1] = Tx(<<PAGE_PROGRAM>>
                 \o Enc24(dev.offset + S25_PAGE_SIZE * i)
                 \o SubSeq(file.disk, S25_PAGE_SIZE * i + 1,
                           Min(dev.bytes, S25_PAGE_SIZE * (i + 1))))
         /\ PollEnd(fs, k + 2) # 0
         /\ C6_Match(fs, PollEnd(fs, k + 2), i + 1)

C6_WriteCase ==
    /\ pc = "done" /\ call.op = "write" /\ ValidPairing /\ file.readMode
    /\ Len(file.disk) >= dev.bytes

\* C6: writeFileToFlash of N bytes at offset A from a source of at least N
\* bytes issues ceil(N/256) page-program commands; the i-th has the 3-byte
\* address of A + 256*i and min(256, N - 256*i) data bytes, the source's
\* bytes in order; each follows its own write-enable transaction and is
\* followed by status reads up to one that reports ready, after which the
\* next command comes.  Start and stop alternate throughout.
C6_PagePrograms ==
    C6_WriteCase =>
        /\ C6_Match(FramesOf(bus), 1, 0)
        /\ C3_StartStopAlternate
        /\ Pulled(file) = dev.bytes

C6_Witness ==
    /\ C6_WriteCase
    /\ dev.bytes = 300 /\ dev.offset = 0
    /\ LET cmds == Commands(FramesOf(bus))
       IN  /\ Len(cmds) = 4
           /\ Len(cmds[2]) = 4 + 256 /\ SubSeq(cmds[2], 1, 4) = Tx(<<2, 0, 0, 0>>)
           /\ Len(cmds[4]) = 4 + 44 /\ SubSeq(cmds[4], 1, 4) = Tx(<<2, 0, 1, 0>>)
    /\ \E k \in 1..Len(bus) : bus[k] = <<"rx", 1>> \/ bus[k] = <<"rx", 255>>

C7_DumpCase == pc = "done" /\ call.op = "dump" /\ ValidPairing

C7_Echo == [i \in 1..dev.bytes |-> (dev.offset + i - 1) % 256]

\* C7: dumpFlashToFile with byteCount N and offset A makes exactly these
\* calls: the identify transaction; then one transaction with opcode 0x03,
\* the address bytes (A>>16)&0xFF, (A>>8)&0xFF, A&0xFF and N readByte
\* calls.  The sink receives the bytes read, in the order read: against a
\* chip answering (address + index) mod 256 the i-th is (A + i) mod 256.
\* For N = 0 no byte is read and the sink receives nothing.
C7_DumpCalls ==
    C7_DumpCase =>
        /\ Calls = IdentifyCalls(chip.id)
                   \o <<StartCall>>
                   \o Tx(<<READ, (dev.offset \div 65536) % 256,
                           (dev.offset \div 256) % 256, dev.offset % 256>>)
                   \o [i \in 1..dev.bytes |-> <<"rx", C7_Echo[i]>>]
                   \o <<StopCall>>
        /\ SinkBytes(file) = C7_Echo
        /\ hw.nread = 8 * (3 + dev.bytes)

C7_Witness ==
    /\ C7_DumpCase
    /\ dev.bytes = 3 /\ dev.offset = 66302
    /\ SinkBytes(file) = <<254, 255, 0>>

C8_IdentifyCase == pc = "done" /\ call.op = "jedec" /\ dev.interface = "SPI"

\* C8: identify makes exactly the calls start, write 0x9F, three readByte,
\* stop; the three bytes go to manufacturer, memoryType, capacity in this
\* order; it reports success whatever the bytes are; nothing follows.
C8_Identify ==
    /\ C8_IdentifyCase =>
          /\ Calls = IdentifyCalls(chip.id)
          /\ dev.jedecId = chip.id
          /\ dev.jedecValid
          /\ loc.ret = "true"
    /\ (call.op = "dump" /\ ValidPairing /\ pc = "rd_start") =>
          /\ Calls = IdentifyCalls(chip.id)
          /\ dev.jedecId = chip.id
          /\ dev.jedecValid

C8_Witness ==
    /\ C8_IdentifyCase
    /\ dev.jedecId = <<239, 64, 24>>
    /\ dev.jedecValid

C9_LoopbackCase == pc = "done" /\ call.op = "loopback"

\* C9 as claimed: writeByte(b) then readByte() with data-in tied to
\* data-out returns b, for every byte b.
C9_LoopbackReturnsByte ==
    C9_LoopbackCase => bus = <<<<"tx", call.byte>>, <<"rx", call.byte>>>>

\* C9 as amended: with data-in wired to data-out, readByte() samples eight
\* times the level writeByte(b) left on the data-out line, the last bit
\* sent, bit 0 of b: it returns 0xFF when b is odd and 0x00 when b is even,
\* which is b only for 0x00 and 0xFF.  With a loop-back that gives, at the
\* k-th sample of readByte(), the level data-out had at the k-th rising
\* clock edge of writeByte(b), readByte() returns b for every b.
C9_LoopbackReturnsLastBit ==
    /\ C9_LoopbackCase =>
          /\ bus = <<<<"tx", call.byte>>, <<"rx", 255 * (call.byte % 2)>>>>
          /\ (bus[2][2] = call.byte) <=> (call.byte \in {0, 255})
    /\ (pc = "done" /\ call.op = "echo") =>
          bus = <<<<"tx", call.byte>>, <<"rx", call.byte>>>>

C9_Witness ==
    /\ C9_LoopbackCase
    /\ call.byte = 165
    /\ bus[2] = <<"rx", 255>>

C10_Max(a, b) == IF a > b THEN a ELSE b

\* C10: after setTiming(khz) with khz in 1..1000 the three quanta equal
\* max(1, 500 div khz), and no lower rate gives a smaller value; after
\* setTiming(0) the three quanta are 0.
C10_Timing ==
    (pc = "done" /\ call.op = "setTiming") =>
        /\ call.khz \in 1..MAX_KHZ =>
              /\ dut.wait_bit = C10_Max(1, 500 \div call.khz)
              /\ dut.wait_clk = C10_Max(1, 500 \div call.khz)
              /\ dut.wait_byte = C10_Max(1, 500 \div call.khz)
              /\ \A k \in 1..call.khz :
                     /\ setTiming(DutNew, k).wait_bit >= dut.wait_bit
                     /\ setTiming(DutNew, k).wait_clk >= dut.wait_clk
                     /\ setTiming(DutNew, k).wait_byte >= dut.wait_byte
        /\ call.khz = 0 =>
              dut = [wait_clk |-> 0, wait_byte |-> 0, wait_bit |-> 0]

C10_Witness ==
    /\ pc = "done" /\ call.op = "setTiming"
    /\ call.khz = 1000
    /\ dut.wait_clk = 1 /\ dut.wait_bit = 1 /\ dut.wait_byte = 1

\* C11: a clock rate above 1000 kHz is a configuration error: no timing
\* profile is derived from it (the quanta stay as constructed) and no byte
\* is transferred at a substituted rate.
C11_OverRateRejected ==
    dev.KHz > MAX_KHZ =>
        /\ dut = DutNew
        /\ \A k \in 1..Len(bus) : bus[k][1] \notin {"tx", "rx"}

\* C12: with -o 0 the offset step of main goes on to the operation with
\* Device.offset = 0 and reports nothing, as it does without -o.
C12_OffsetZeroAccepted ==
    [][(pc = "m_offset" /\ call.offset = Arg(<<"0">>)) =>
           (pc' = "m_run" /\ dev'.offset = 0 /\ report' = report)]_vars

C13_Numerals(s) == IF IsDigit(s[Len(s)]) THEN s ELSE SubSeq(s, 1, Len(s) - 1)

C13_Multiplier(s) ==
    IF IsDigit(s[Len(s)]) THEN 1 ELSE IF s[Len(s)] = "K" THEN 1024 ELSE 1048576

\* A decimal number followed by nothing, K or M.
C13_WellFormed(s) ==
    /\ Len(s) > 0
    /\ C13_Numerals(s) # <<>>
    /\ \A k \in 1..Len(C13_Numerals(s)) : IsDigit(s[k])
    /\ IsDigit(s[Len(s)]) \/ s[Len(s)] \in {"K", "M"}

\* n times the multiplier exceeds MAX_BYTES (the multipliers divide it).
C13_Exceeds(s) ==
    \/ DecValue(C13_Numerals(s), 1, 0) < 0
    \/ DecValue(C13_Numerals(s), 1, 0) > MAX_BYTES \div C13_Multiplier(s)

\* C13: when --bytes is n with an optional suffix and n times the
\* multiplier exceeds 256 MiB, the program ends in failure without calling
\* an operation; an operation that is called has Device.bytes equal to n
\* times the multiplier, at most 256 MiB.
C13_BytesLimit ==
    (pc = "done" /\ call.bytes.given /\ C13_WellFormed(call.bytes.str)) =>
        /\ C13_Exceeds(call.bytes.str) =>
               loc.ran = "none" /\ loc.ret \in {"EXIT_FAILURE", "abort"}
        /\ loc.ran # "none" =>
               /\ ~C13_Exceeds(call.bytes.str)
               /\ dev.bytes = DecValue(C13_Numerals(call.bytes.str), 1, 0)
                                  * C13_Multiplier(call.bytes.str)
               /\ dev.bytes <= MAX_BYTES

\* The address a sector-erase frame carries.
C14_Address(f) == 65536 * f[2][2] + 256 * f[3][2] + f[4][2]

C14_Units ==
    (dev.offset \div SECTOR_SIZE)..((dev.offset + call.byteCount - 1) \div SECTOR_SIZE)

\* C14: eraseFlash with byteCount > 0 sends, for every 4 KiB unit holding a
\* byte of [offset, offset + byteCount), a sector-erase whose address lies
\* in that unit (units compared as the 3-byte address carries them).
C14_RangeCovered ==
    (pc = "done" /\ call.op = "erase" /\ ValidPairing /\ call.byteCount > 0) =>
        LET fs == FramesOf(bus)
        IN  \A u \in C14_Units :
                \E k \in 1..Len(fs) :
                    /\ Len(fs[k]) = 4
                    /\ fs[k][1] = <<"tx", SECTOR_ERASE_4K>>
                    /\ C14_Address(fs[k]) \div SECTOR_SIZE = u % 4096

C15_Polling == pc \in {"wb_start", "wb_cmd", "wb_rx", "wb_stop"}

C15_OpensPoll(k) ==
    k > 1 /\ bus[k] = <<"tx", READ_STATUS>> /\ bus[k - 1][1] = "start"

\* C15: every busy-poll iteration is the calls start, write 0x05, one
\* readByte, stop; after an iteration whose status has bit 0 set the next
\* thing on the bus is another iteration, after one whose bit 0 is clear it
\* is not, whatever the other seven bits are.
C15_BusyPoll ==
    LET fs == FramesOf(bus)
    IN  /\ \A k \in 1..Len(bus) :
              C15_OpensPoll(k) =>
                  /\ bus[k - 1] = StartCall
                  /\ k + 1 <= Len(bus) => bus[k + 1][1] = "rx"
                  /\ k + 2 <= Len(bus) => bus[k + 2] = StopCall
        /\ \A k \in 1..Len(fs) :
              fs[k][1] = <<"tx", READ_STATUS>> =>
                  /\ IsStatusFrame(fs[k])
                  /\ IF fs[k][2][2] % 2 = 1
                     THEN IF k < Len(fs) THEN IsStatusFrame(fs[k + 1])
                          ELSE C15_Polling
                     ELSE IF k < Len(fs) THEN fs[k + 1][1] # <<"tx", READ_STATUS>>
                          ELSE ~C15_Polling

C15_Witness ==
    /\ pc = "done"
    /\ LET fs == FramesOf(bus)
       IN  \E k \in 1..(Len(fs) - 1) :
               /\ fs[k] = <<<<"tx", READ_STATUS>>, <<"rx", 255>>>>
               /\ fs[k + 1] = <<<<"tx", READ_STATUS>>, <<"rx", 254>>>>

\* The chip is busy with a program or sector erase that it never finishes.
C16_NeverClears ==
    /\ chip.stuck /\ chip.wip > 0
    /\ call.op = "write" \/ (call.op = "erase" /\ call.byteCount > 0)

\* C16: against a chip whose write-in-progress bit clears after finitely
\* many status reads, writeFileToFlash and eraseFlash return; once a chip
\* is busy and never clears the bit, the operation stays in the busy-poll:
\* it never returns and reports nothing.
C16_Termination ==
    /\ (~chip.stuck) ~> (pc = "done")
    /\ [](C16_NeverClears => (C15_Polling /\ report = <<>> /\ loc.ret = "none"))

C16_Witness ==
    /\ pc = "done" /\ ~chip.stuck
    /\ call.op = "erase" /\ call.byteCount = 2 * SECTOR_SIZE
    /\ \E k \in 1..Len(bus) : bus[k][1] = "rx" /\ bus[k][2] % 2 = 1

(***************************************************************************)
(* The pins after construction                                             *)
(***************************************************************************)
\* The transport has just been constructed: the constructor's stop is the
\* only call on the bus.
C17_Constructed == pc # "entry" /\ Len(bus) = 1

C17_Modes ==
    /\ {p \in Pins : hw.mode[p] = "out"} = {SPI_SCLK, SPI_MOSI, SPI_CS, SPI_WP}
    /\ hw.mode[SPI_MISO] = "in"
    /\ hw.nmode = 5

C17_Witness ==
    /\ pc = "id_start"
    /\ call.op = "dump"
    /\ hw.level[SPI_WP] = 1
    /\ hw.level[SPI_CS] = 1
    /\ hw.mode[SPI_MISO] = "in"

\* C17: immediately after an hwSPI transport is constructed the clock line
\* is low, the data-out line is low, chip-select is high (deasserted) and
\* write-protect is high (protected); clock, data-out, chip-select and
\* write-protect, and only they, are outputs, and data-in is an input.  In a
\* write or an erase initWrite follows the constructor at once and lowers
\* write-protect; the other lines are as the constructor left them.
C17_IdleAfterConstruction ==
    C17_Constructed =>
        /\ hw.level[SPI_SCLK] = 0
        /\ hw.level[SPI_MOSI] = 0
        /\ hw.level[SPI_CS] = 1
        /\ C17_Modes
        /\ call.op \in {"jedec", "dump"} => hw.level[SPI_WP] = 1
        /\ \E k \in 1..Len(hw.trace) :
              /\ hw.trace[k] = <<"write", SPI_WP, 1>>
              /\ \A j \in 1..(k - 1) : hw.trace[j][1] # "write"
                                       \/ hw.trace[j][2] # SPI_WP

(***************************************************************************)
(* Write-protect during a write and an erase                               *)
(***************************************************************************)
\* The pin events of the last call that set the write-protect line.
C18_WpWrites ==
    {k \in 1..Len(hw.trace) :
        hw.trace[k][1] = "write" /\ hw.trace[k][2] = SPI_WP}

C18_Opcodes == {WRITE_ENABLE, PAGE_PROGRAM, SECTOR_ERASE_4K, CHIP_ERASE}

C18_Witness ==
    /\ call.op = "write"
    /\ Len(bus) > 1
    /\ bus[Len(bus)] = <<"tx", PAGE_PROGRAM>>
    /\ \E k \in 1..Len(bus) : bus[k] = <<"tx", WRITE_ENABLE>>
    /\ hw.level[SPI_WP] = 0
    /\ C18_WpWrites = {}

\* C18: in writeFileToFlash and eraseFlash the write-protect line is driven
\* low by initWrite before the first call on the bus after construction,
\* hence before the first write-enable opcode, and no later call of the
\* operation touches it: it is low while every write-enable, page-program,
\* sector-erase and chip-erase opcode is clocked out.
C18_WriteProtectLow ==
    (call.op \in {"write", "erase"} /\ Len(bus) >= 1) =>
        /\ hw.level[SPI_WP] = 0
        /\ Len(bus) = 1 =>
              /\ C18_WpWrites # {}
              /\ \A k \in C18_WpWrites :
                    (\A j \in C18_WpWrites : j <= k) => hw.trace[k][3] = 0
        /\ Len(bus) > 1 => C18_WpWrites = {}
        /\ \A k \in 1..Len(bus) :
              (bus[k][1] = "tx" /\ bus[k][2] \in C18_Opcodes) => k > 1

(***************************************************************************)
(* initRead and a transport that cannot identify                           *)
(***************************************************************************)
C19_Returned == call.op = "initRead" /\ pc = "done"

\* initRead with an hwSPI transport: the identification runs and marks the
\* Device valid, whatever it was before.
C19_SpiValid == (C19_Returned /\ readId(call.hw)) => dev.jedecValid

\* C19: initRead never fails the caller's flow (it returns, reporting
\* nothing), and whenever the transport's readId reports false, as it does
\* for hwDSPI, hwQSPI and hwI2C, Device.jedecValid is false when initRead
\* returns, whatever it was before.
C19_IdentifyFailureInvalid ==
    (C19_Returned /\ ~readId(call.hw)) =>
        (dev.jedecValid = FALSE /\ report = <<>>)

(***************************************************************************)
(* initWrite and the timing quanta                                         *)
(***************************************************************************)
C20_Returned == call.op = "initWrite" /\ call.hw = "hwSPI" /\ pc = "done"

\* What initWrite does do: write-protect is low afterwards and the quanta
\* are the ones the transport had before the call.
C20_OnlyWriteProtect ==
    [][(pc = "entry" /\ call.op = "initWrite" /\ call.hw = "hwSPI")
          => (hw'.level[SPI_WP] = 0 /\ dut' = dut)]_vars

\* C20: initWrite configures the timing quanta from Device.KHz as well as
\* disabling write-protect: after it returns on an hwSPI transport the three
\* quanta equal the profile setTiming derives from Device.KHz, whatever
\* they were before, and write-protect is low.
C20_TimingConfigured ==
    C20_Returned =>
        /\ dut = setTiming(DutNew, dev.KHz)
        /\ hw.level[SPI_WP] = 0

(***************************************************************************)
(* splasher::readJedecId and an unsupported pairing                        *)
(***************************************************************************)
C21_UnsupportedIdentify == call.op = "jedec" /\ Unsupported(dev)

\* C21: splasher::readJedecId rejects every pairing other than (SPI,
\* 25-series) before any pin access: it returns false, leaves the Device as
\* it was and performs no pin write.
C21_IdentifyRejectsUnsupported ==
    C21_UnsupportedIdentify =>
        /\ hw.nwrite = 0
        /\ hw.nmode = 0
        /\ dev.jedecValid = FALSE
        /\ dev.jedecId = <<-1, -1, -1>>
        /\ pc = "done" => loc.ret = "false"

(***************************************************************************)
(* Delays of length zero                                                   *)
(***************************************************************************)
C22_Witness ==
    /\ call.op = "dump"
    /\ pc = "done"
    /\ dev.KHz = 0
    /\ \E k \in 1..Len(bus) : bus[k][1] = "rx"
    /\ \E k \in 1..Len(bus) : bus[k][1] = "tx"
    /\ hw.ndelay = 0

\* C22: the delay primitive is never called with the argument 0: start,
\* stop, tx_byte and rx_byte skip every delay whose quantum is 0, so at the
\* unconstrained rate (KHz = 0) an operation makes no delay call at all.
\* At any other rate every call on the bus does delay.
C22_NoZeroDelay ==
    /\ \A k \in 1..Len(hw.trace) :
          hw.trace[k][1] = "delay" => hw.trace[k][2] > 0
    /\ dev.KHz = 0 => hw.ndelay = 0
    /\ (dev.KHz # 0 /\ Len(bus) > 1) =>
          \E k \in 1..Len(hw.trace) : hw.trace[k][1] = "delay"

(***************************************************************************)
(* The pin events of writeByte                                             *)
(***************************************************************************)
\* A wait of quantum q: nothing when q is 0.
C23_Wait(q) == IF q = 0 THEN <<>> ELSE <<<<"delay", q>>>>

\* The events of the k-th bit (k = 0..7) of writeByte(b).
C23_Bit(b, k) ==
    <<<<"write", SPI_MOSI, (b \div Pow2(7 - k)) % 2>>>>
        \o C23_Wait(dut.wait_bit)
        \o <<<<"write", SPI_SCLK, 1>>>>
        \o C23_Wait(dut.wait_clk)
        \o <<<<"write", SPI_SCLK, 0>>>>
        \o C23_Wait(dut.wait_clk)

C23_Written ==
    /\ call.op \in {"writeByte", "loopback", "echo"}
    /\ Len(bus) = 1

C23_Witness ==
    /\ C23_Written
    /\ call.op = "writeByte"
    /\ pc = "done"
    /\ call.byte = 165
    /\ dut.wait_clk = 5
    /\ Len(hw.trace) = 49

\* C23: writeByte(b) makes exactly 8 clock pulses; before the k-th rising
\* edge the data-out line is set to bit 7-k of b and is not written again
\* until after the following falling edge, in the order set data-out,
\* bit-setup wait, clock high, half-period wait, clock low, half-period
\* wait; one inter-byte wait follows the 8th bit; the clock is low on
\* return.
C23_WriteByteEvents ==
    C23_Written =>
        /\ hw.trace = C23_Bit(call.byte, 0) \o C23_Bit(call.byte, 1)
                        \o C23_Bit(call.byte, 2) \o C23_Bit(call.byte, 3)
                        \o C23_Bit(call.byte, 4) \o C23_Bit(call.byte, 5)
                        \o C23_Bit(call.byte, 6) \o C23_Bit(call.byte, 7)
                        \o C23_Wait(dut.wait_byte)
        /\ hw.level[SPI_SCLK] = 0
        /\ Cardinality({k \in 1..Len(hw.trace) :
                           hw.trace[k] = <<"write", SPI_SCLK, 1>>}) = 8

(***************************************************************************)
(* The pin events of readByte                                              *)
(***************************************************************************)
\* The samples readByte took of the data-in line, in order.
C24_Samples == SelectSeq(hw.trace, LAMBDA e : e[1] = "read")

\* The events of one bit of readByte that sampled the level lv.
C24_Bit(lv) ==
    <<<<"read", SPI_MISO, lv>>>>
        \o C23_Wait(dut.wait_bit)
        \o <<<<"write", SPI_SCLK, 1>>>>
        \o C23_Wait(dut.wait_clk)
        \o <<<<"write", SPI_SCLK, 0>>>>
        \o C23_Wait(dut.wait_clk)

\* readByte has just returned.
C24_Read == pc = "done" /\ Len(bus) >= 1 /\ bus[Len(bus)][1] = "rx"

C24_Witness ==
    /\ C24_Read
    /\ call.op = "readByte"
    /\ call.byte = 165
    /\ bus = <<<<"rx", 165>>>>
    /\ dut.wait_clk = 5

\* C24: readByte() makes exactly 8 clock pulses, samples the data-in line
\* once before each rising edge and returns the byte whose bit 7-k is the
\* k-th sample (k = 0..7), for every sequence of 8 input levels; it never
\* writes the data-out line.
C24_ReadByteEvents ==
    C24_Read =>
        LET s == C24_Samples
        IN  /\ Len(s) = 8
            /\ hw.trace = C24_Bit(s[1][3]) \o C24_Bit(s[2][3]) \o C24_Bit(s[3][3])
                            \o C24_Bit(s[4][3]) \o C24_Bit(s[5][3])
                            \o C24_Bit(s[6][3]) \o C24_Bit(s[7][3])
                            \o C24_Bit(s[8][3]) \o C23_Wait(dut.wait_byte)
            /\ bus[Len(bus)][2] =
                  128 * s[1][3] + 64 * s[2][3] + 32 * s[3][3] + 16 * s[4][3]
                    + 8 * s[5][3] + 4 * s[6][3] + 2 * s[7][3] + s[8][3]
            /\ call.op = "readByte" =>
                  /\ \A k \in 1..8 : s[k][3] = (call.byte \div Pow2(8 - k)) % 2
                  /\ bus[Len(bus)][2] = call.byte
            /\ \A k \in 1..Len(hw.trace) :
                  hw.trace[k][1] = "write" => hw.trace[k][2] # SPI_MOSI
            /\ hw.level[SPI_SCLK] = 0

(***************************************************************************)
(* Addresses beyond 24 bits                                                *)
(***************************************************************************)
\* The frames that carry an address: a read, a page program, a sector erase.
C25_AddressFrames ==
    SelectSeq(FramesOf(bus),
              LAMBDA f : /\ Len(f) >= 4
                         /\ f[1] \in {<<"tx", READ>>, <<"tx", PAGE_PROGRAM>>,
                                      <<"tx", SECTOR_ERASE_4K>>})

\* The distance between the addresses of two successive frames.
C25_Step == IF call.op = "erase" THEN SECTOR_SIZE ELSE S25_PAGE_SIZE

C25_Finished ==
    pc = "done" /\ call.op \in {"dump", "write", "erase"} /\ ValidPairing

\* C25: no dump, write or range erase goes to the hardware with a start
\* offset and byte count that wrap past the addressable range: every 3-byte
\* address sent in an operation is the intended byte address itself, not
\* that address modulo 2^24.
C25_AddressesAsIntended ==
    C25_Finished =>
        \A i \in 1..Len(C25_AddressFrames) :
            C14_Address(C25_AddressFrames[i]) = dev.offset + (i - 1) * C25_Step

(***************************************************************************)
(* What the operations change of the Device                                *)
(***************************************************************************)
C26_Witness ==
    /\ pc = "done"
    /\ call.op = "dump"
    /\ dev.bytes = 2
    /\ dev.offset = 66302
    /\ dev.jedecValid
    /\ dev.jedecId = <<255, 255, 255>>

\* C26: the operations change a Device only in the identify step: a dump
\* (with the initRead it runs) changes no field other than jedecId and
\* jedecValid, and a write and an erase (with the initWrite they run) leave
\* interface, protocol, KHz, bytes, offset, jedecId and jedecValid as they
\* were.
C26_DeviceFrame ==
    [][/\ dev'.interface = dev.interface
       /\ dev'.protocol = dev.protocol
       /\ dev'.KHz = dev.KHz
       /\ dev'.bytes = dev.bytes
       /\ dev'.offset = dev.offset
       /\ call.op \in {"write", "erase"} => dev' = dev
       /\ dev' # dev => pc \in {"id_rx", "id_stop"}]_vars

(***************************************************************************)
(* gpioTerminate on the way out of main                                    *)
(***************************************************************************)
\* main has been left, by return, exit or an uncaught exception.
C27_Exited == pc = "done" /\ loc.ret # "none"

\* C27: on every path by which the program exits after gpioInitialise
\* succeeded (normal completion and every error exit, in argument handling
\* and in opening the file) gpioTerminate has been called before the
\* process exits.
C27_TerminateOnEveryExit == C27_Exited => loc.term

(***************************************************************************)
(* The clock and chip-select                                               *)
(***************************************************************************)
\* The level of a pin just before the k-th pin event of the call a step
\* makes: the last level written earlier in the call, or the level the pin
\* had when the call began.
C28_LevelAt(pin, k) ==
    LET w == {j \in 1..(k - 1) :
                 hw'.trace[j][1] = "write" /\ hw'.trace[j][2] = pin}
    IN  IF w = {} THEN hw.level[pin]
        ELSE hw'.trace[CHOOSE j \in w : \A i \in w : i <= j][3]

C28_Witness ==
    /\ call.op = "erase"
    /\ Len(bus) > 1
    /\ bus[Len(bus)] = <<"tx", SECTOR_ERASE_4K>>
    /\ hw.level[SPI_CS] = 0
    /\ hw.level[SPI_SCLK] = 0
    /\ \E k \in 1..Len(hw.trace) : hw.trace[k] = <<"write", SPI_SCLK, 1>>

\* C28: in every operation (identify, dump, write, chip erase, range erase,
\* busy poll) every rising edge of the clock occurs while chip-select is
\* low: no bit is clocked in or out while the chip is deselected; and the
\* clock is low whenever chip-select is written, and between calls.
C28_ClockOnlyWhenSelected ==
    [][bus' # bus =>
          /\ \A k \in 1..Len(hw'.trace) :
                /\ hw'.trace[k] = <<"write", SPI_SCLK, 1>> =>
                      C28_LevelAt(SPI_CS, k) = 0
                /\ (hw'.trace[k][1] = "write" /\ hw'.trace[k][2] = SPI_CS) =>
                      C28_LevelAt(SPI_SCLK, k) = 0
          /\ hw'.level[SPI_SCLK] = 0]_vars

(***************************************************************************)
(* Dump and identify are not destructive                                   *)
(***************************************************************************)
\* The opcodes sent so far: the byte written first after each start.
C29_OpcodesSent ==
    {bus[k][2] : k \in {j \in 2..Len(bus) :
                           bus[j][1] = "tx" /\ bus[j - 1][1] = "start"}}

C29_Witness ==
    /\ call.op = "dump"
    /\ pc = "done"
    /\ dev.offset = 66302
    /\ dev.bytes = 1
    /\ C29_OpcodesSent = {READ_JEDEC_ID, READ}
    /\ hw.level[SPI_WP] = 1

\* C29: during dumpFlashToFile and splasher::readJedecId the write-protect
\* line stays high from the construction of the transport to the return,
\* and the only opcodes sent are 0x9F (identify) and 0x03 (read): no
\* write-enable, page-program or erase opcode.  Every other byte written is
\* one of the three address bytes of the read.
C29_ReadOnly ==
    (call.op \in {"jedec", "dump"} /\ Len(bus) >= 1) =>
        /\ hw.level[SPI_WP] = 1
        /\ \A k \in 1..Len(hw.trace) :
              (hw.trace[k][1] = "write" /\ hw.trace[k][2] = SPI_WP)
                  => hw.trace[k][3] = 1
        /\ C29_OpcodesSent \subseteq
              (IF call.op = "jedec" THEN {READ_JEDEC_ID} ELSE {READ_JEDEC_ID, READ})
        /\ C29_OpcodesSent \cap {WRITE_ENABLE, PAGE_PROGRAM, SECTOR_ERASE_4K,
                                 CHIP_ERASE} = {}
        /\ \A k \in 2..Len(bus) :
              bus[k][1] = "tx" =>
                  \E j \in 1..(k - 1) :
                      /\ bus[j][1] = "start"
                      /\ k - j <= (IF bus[j + 1][2] = READ THEN 4 ELSE 1)
                      /\ \A i \in (j + 1)..k : bus[i][1] = "tx"

(***************************************************************************)
(* What a BinFile opened for writing holds after destruction               *)
(***************************************************************************)
\* The bytes pushed so far, in push order.
C30_Pushed == [k \in 1..loc.cByte |-> PushByte(call.seed, k)]

C30_Witness ==
    /\ pc = "done"
    /\ call.op = "push"
    /\ loc.cByte = 2 * MaxRamBytes
    /\ Len(file.disk) = 2 * MaxRamBytes
    /\ file.disk[MaxRamBytes + 1] = PushByte(call.seed, MaxRamBytes + 1)

\* C30: for a BinFile opened for writing, after any number of
\* pushByteToArray calls followed by destruction the file holds exactly the
\* bytes pushed, in push order, none lost and none twice, for counts below,
\* equal to and above the capacity of the array, exact multiples included;
\* the array position never passes the capacity.
C30_FileHoldsPushedBytes ==
    call.op = "push" =>
        /\ file.byteArrayPos <= MaxRamBytes
        /\ Len(file.arr) <= MaxRamBytes
        /\ pc = "done" => file.disk = C30_Pushed
        /\ pc = "f_push" =>
              file.disk \o SubSeq(file.arr, 1, file.byteArrayPos) = C30_Pushed

(***************************************************************************)
(* Page programs and page boundaries                                       *)
(***************************************************************************)
\* The page-program frames that carry data: opcode, three address bytes and
\* at least one data byte.
C31_PagePrograms ==
    SelectSeq(FramesOf(bus),
              LAMBDA f : Len(f) >= 5 /\ f[1] = <<"tx", PAGE_PROGRAM>>)

\* C31: for every start offset, a multiple of 256 or not, and every byte
\* count, the data of each page-program command of writeFileToFlash lies
\* within one 256-byte page: a command at address a with n >= 1 data bytes
\* has a div 256 = (a + n - 1) div 256.
C31_WithinOnePage ==
    (pc = "done" /\ call.op = "write" /\ ValidPairing) =>
        \A i \in 1..Len(C31_PagePrograms) :
            LET a == C14_Address(C31_PagePrograms[i])
                n == Len(C31_PagePrograms[i]) - 4
            IN  a \div S25_PAGE_SIZE = (a + n - 1) \div S25_PAGE_SIZE

====
